---- MODULE Spec2Model ----
(***************************************************************************)
(* Model of renameFiles.py: the ImageRenamer class (directory scan,        *)
(* sequential rename plan, collision fallback, per-file rename with error  *)
(* isolation, counters), the interactive main() flow, and the filename     *)
(* generator of pattern mode (generate_new_name).                          *)
(*                                                                         *)
(* Strings are sequences of one-character strings, so that formatting,     *)
(* case folding, stripping, sorting and the regular-expression clean-up    *)
(* are computed character by character as the Python code computes them.   *)
(* The file system is a POSIX one (case-sensitive names, os.rename         *)
(* replaces an existing regular file); a rename refused by the platform    *)
(* (e.g. Windows' FileExistsError) is one of the failures the environment  *)
(* may inject into any rename.                                             *)
(***************************************************************************)
EXTENDS Integers, Sequences, FiniteSets, TLC

\* ------------------------------------------------------------------ bounds
\* Largest number of entries in the directory the program is started on.
MaxFiles == 5
\* Largest number of rename failures the environment injects.
MaxFail == 1

\* ----------------------------------------------------------------- strings
\* The characters of the model in ASCII (code point) order.
Ascii ==
  << " ", "\"", "*", ".", "/",
     "0", "1", "2", "3", "4", "5", "6", "7", "8", "9",
     ":", "<", ">", "?",
     "A", "B", "C", "D", "E", "F", "G", "H", "I", "J", "K", "L", "M",
     "N", "O", "P", "Q", "R", "S", "T", "U", "V", "W", "X", "Y", "Z",
     "\\", "_",
     "a", "b", "c", "d", "e", "f", "g", "h", "i", "j", "k", "l", "m",
     "n", "o", "p", "q", "r", "s", "t", "u", "v", "w", "x", "y", "z",
     "{", "|", "}" >>

Chars == {Ascii[i] : i \in 1..Len(Ascii)}

\* ord(c), up to an order-preserving renumbering.
Ord == [c \in Chars |-> CHOOSE i \in 1..Len(Ascii) : Ascii[i] = c]

UpperChars == <<"A", "B", "C", "D", "E", "F", "G", "H", "I", "J", "K", "L", "M",
                "N", "O", "P", "Q", "R", "S", "T", "U", "V", "W", "X", "Y", "Z">>

LowerChars == <<"a", "b", "c", "d", "e", "f", "g", "h", "i", "j", "k", "l", "m",
                "n", "o", "p", "q", "r", "s", "t", "u", "v", "w", "x", "y", "z">>

LowerChar(c) ==
  IF \E i \in 1..26 : UpperChars[i] = c
  THEN LowerChars[CHOOSE i \in 1..26 : UpperChars[i] = c]
  ELSE c

\* str.lower()
Lower(s) == [i \in 1..Len(s) |-> LowerChar(s[i])]

\* str.strip(): leading and trailing whitespace removed.
RECURSIVE LStripWs(_)
LStripWs(s) == IF s # <<>> /\ Head(s) = " " THEN LStripWs(Tail(s)) ELSE s

RECURSIVE RStripWs(_)
RStripWs(s) ==
  IF s # <<>> /\ s[Len(s)] = " " THEN RStripWs(SubSeq(s, 1, Len(s) - 1)) ELSE s

Strip(s) == RStripWs(LStripWs(s))

\* Python's ordering of two str values (and of two paths of one directory).
RECURSIVE LexLess(_, _)
LexLess(a, b) ==
  IF a = <<>> THEN b # <<>>
  ELSE IF b = <<>> THEN FALSE
  ELSE IF Head(a) = Head(b) THEN LexLess(Tail(a), Tail(b))
  ELSE Ord[Head(a)] < Ord[Head(b)]

\* sorted(): the names of a set in ascending order.
RECURSIVE Sorted(_)
Sorted(S) ==
  IF S = {} THEN <<>>
  ELSE LET m == CHOOSE x \in S : \A y \in S \ {x} : LexLess(x, y)
       IN  <<m>> \o Sorted(S \ {m})

DigitChars == <<"0", "1", "2", "3", "4", "5", "6", "7", "8", "9">>

\* str(n) for n >= 0
RECURSIVE Digits(_)
Digits(n) ==
  IF n < 10 THEN <<DigitChars[n + 1]>>
  ELSE Digits(n \div 10) \o <<DigitChars[(n % 10) + 1]>>

\* str.zfill(width) of a digit string: left-padded with "0", never truncated.
RECURSIVE ZFill(_, _)
ZFill(s, width) == IF Len(s) >= width THEN s ELSE ZFill(<<"0">> \o s, width)

\* f"{n:03d}" and str(n).zfill(3)
Fmt03(n) == ZFill(Digits(n), 3)

DotJpg == <<".", "j", "p", "g">>

ImagePrefix == <<"i", "m", "a", "g", "e", "_">>

\* f"{i:03d}.jpg"
SeqName(i) == Fmt03(i) \o DotJpg

\* f"image_{k:03d}.jpg"
ImageName(k) == ImagePrefix \o Fmt03(k) \o DotJpg

\* The index of the last "." of a name, 0 when there is none.
LastDot(name) ==
  IF \E i \in 1..Len(name) : name[i] = "."
  THEN CHOOSE i \in 1..Len(name) :
         name[i] = "." /\ \A j \in (i + 1)..Len(name) : name[j] # "."
  ELSE 0

\* PurePath.suffix: from the last dot on, unless that dot starts or ends the name.
Suffix(name) ==
  LET i == LastDot(name)
  IN  IF 1 < i /\ i < Len(name) THEN SubSeq(name, i, Len(name)) ELSE <<>>

\* PurePath.stem
Stem(name) ==
  LET i == LastDot(name)
  IN  IF 1 < i /\ i < Len(name) THEN SubSeq(name, 1, i - 1) ELSE name

\* ImageRenamer.supported_formats
SupportedFormats ==
  { <<".", "j", "p", "g">>, <<".", "j", "p", "e", "g">>, <<".", "p", "n", "g">>,
    <<".", "g", "i", "f">>, <<".", "b", "m", "p">>, <<".", "t", "i", "f", "f">>,
    <<".", "w", "e", "b", "p">>, <<".", "i", "c", "o">> }

\* ------------------------------------------------------------- file system
\* A directory is a function from the names of its entries to
\* [kind: "file" or "dir", id: the identity (inode) of the entry].

\* Path.exists() of a child of the directory
Exists(d, name) == name \in DOMAIN d

\* Path.is_file()
IsFile(d, name) == name \in DOMAIN d /\ d[name].kind = "file"

\* Whether os.rename(src, dst) raises: the source is gone, the destination is a
\* directory, or the environment refuses it (permissions, path length, ...).
RenameRaises(d, src, dst, fail) ==
  \/ fail
  \/ ~Exists(d, src)
  \/ (Exists(d, dst) /\ d[dst].kind = "dir")

\* The directory after a successful os.rename(src, dst): the entry moves, and a
\* regular file already at dst is replaced.
Renamed(d, src, dst) ==
  [n \in (DOMAIN d \ {src}) \cup {dst} |-> IF n = dst THEN d[src] ELSE d[n]]

\* Names the initial directory is drawn from.
Pool ==
  { SeqName(0), SeqName(1), SeqName(2), SeqName(3),
    <<"a", ".", "p", "n", "g">>, <<"b", ".", "J", "P", "G">>,
    ImageName(4), ImageName(5),
    <<"n", ".", "t", "x", "t">> }

\* Names that may also be a sub-directory instead of a regular file.
DirCapable == { SeqName(2) }

Kinds(n) == IF n \in DirCapable THEN {"file", "dir"} ELSE {"file"}

\* The directories a run can start from: any at most MaxFiles entries.
Directories ==
  UNION { [S -> {"file", "dir"}] : S \in {T \in SUBSET Pool : Cardinality(T) <= MaxFiles} }

InitialDirs ==
  { [n \in DOMAIN k |-> [kind |-> k[n], id |-> n]] :
      k \in {f \in Directories : \A n \in DOMAIN f : f[n] \in Kinds(n)} }

\* ---------------------------------------------------------------- renamer
\* ImageRenamer.get_image_files
get_image_files(d) ==
  Sorted({n \in DOMAIN d : IsFile(d, n) /\ Lower(Suffix(n)) \in SupportedFormats})

\* Plan with the position counted from 0.
PlanZeroBased(image_files) ==
  [i \in 1..Len(image_files) |-> [src |-> image_files[i], dst |-> SeqName(i - 1)]]

\* The plan built by the first loop of rename_files_automatically.
Plan(image_files) ==
  [i \in 1..Len(image_files) |-> [src |-> image_files[i], dst |-> SeqName(i)]]

\* The while loop of the collision branch: the first n + counter whose
\* image_ name is not on disk.
RECURSIVE FallbackIndex(_, _, _)
FallbackIndex(d, n, counter) ==
  IF Exists(d, ImageName(n + counter))
  THEN FallbackIndex(d, n, counter + 1)
  ELSE n + counter

\* Collides without the test that the destination is another path.
CollidesSelf(d, file_path, new_path) == Exists(d, new_path)

\* Whether the planned destination is taken by another entry.
Collides(d, file_path, new_path) == Exists(d, new_path) /\ new_path # file_path

\* FirstFree with the counter started at 0.
FirstFreeFromN(d, n) == FallbackIndex(d, n, 0)

\* The collision branch's loop, entered with counter = 1.
FirstFree(d, n) == FallbackIndex(d, n, 1)

\* Resolve without the collision branch.
ResolveNoCheck(d, n, file_path, new_path) == new_path

\* Resolve with the first fallback name taken without looking at the disk.
ResolveNoLoop(d, n, file_path, new_path) ==
  IF Collides(d, file_path, new_path) THEN ImageName(n + 1) ELSE new_path

\* The destination after the collision branch.
Resolve(d, n, file_path, new_path) ==
  IF Collides(d, file_path, new_path)
  THEN ImageName(FirstFree(d, n))
  ELSE new_path

\* What one pass of the renaming loop does with a file: the name is already
\* right, the rename raises, or the rename is applied.
Outcome(file_path, new_path, raises) ==
  IF new_path = file_path THEN "unchanged"
  ELSE IF raises THEN "error"
  ELSE "renamed"

\* CountRenamed with the count taken before the rename is tried.
CountRenamedAttempt(count, outcome) ==
  IF outcome \in {"renamed", "error"} THEN count + 1 ELSE count

\* self.renamed_count after one pass of the loop
CountRenamed(count, outcome) == IF outcome = "renamed" THEN count + 1 ELSE count

\* CountSkipped without the count of the error branch.
CountSkippedNoError(count, outcome) ==
  IF outcome = "unchanged" THEN count + 1 ELSE count

\* self.skipped_count after one pass of the loop
CountSkipped(count, outcome) ==
  IF outcome \in {"unchanged", "error"} THEN count + 1 ELSE count

\* Proceeds by the first letter of the answer.
ProceedsPrefix(raw) ==
  LET response == Lower(Strip(raw))
  IN  response # <<>> /\ Head(response) = "y"

\* main(): the responses that let the batch start.
Proceeds(raw) ==
  LET response == Lower(Strip(raw))
  IN  ~(response # <<"y">> /\ response # <<"y", "e", "s">>)

\* What the user may type at the confirmation prompt.
Responses ==
  { <<"y">>, <<"Y", "e", "S">>, <<" ", "y", " ">>,
    <<>>, <<"N">>, <<"y", "e">>, <<"y", " ", "e", "s">> }

\* What the path typed at the first prompt (or passed by a caller) names.
Targets == {"dir", "missing", "file"}

\* ------------------------------------------------------------------ state
VARIABLES
  fs,               \* the target directory
  pc,               \* where the program is
  mode,             \* "main": through main(); "direct": the method called directly
  target,           \* what the given path names
  asked,            \* whether the confirmation prompt was shown in this run
  response,         \* the raw answer to the confirmation prompt
  image_files,      \* the sorted scan
  files_to_rename,  \* the plan
  idx,              \* position of the renaming loop in the plan (1-based)
  renamed_count,    \* ImageRenamer.renamed_count
  skipped_count,    \* ImageRenamer.skipped_count
  nFail,            \* failures injected so far
  startFs,          \* history: the directory when the run started
  log,              \* history: one record per file the loop has processed
  prev,             \* history: the previous run renamed all its 2 or more files
  gen_pc,           \* generate_new_name: "in" before the call, "out" after
  gen_in,           \* generate_new_name: the arguments
  gen_out           \* generate_new_name: the returned name

renamerVars ==
  << fs, pc, mode, target, asked, response, image_files, files_to_rename,
     idx, renamed_count, skipped_count, nFail, startFs, log, prev >>

genVars == << gen_pc, gen_in, gen_out >>

vars == << renamerVars, genVars >>

\* The program is not running: before the first run or after a run returned.
Returned == {"idle", "done", "nofiles", "error", "cancelled", "crashed"}

\* History of the run that just returned, kept when the next one starts.
PrevOf ==
  pc = "done" /\ Len(image_files) >= 2 /\ renamed_count = Len(image_files)

GenIdle == gen_pc = "off" /\ gen_in = <<>> /\ gen_out = <<>>

Init ==
  /\ fs \in InitialDirs
  /\ pc = "idle"
  /\ mode = "none"
  /\ target = "dir"
  /\ asked = FALSE
  /\ response = <<>>
  /\ image_files = <<>>
  /\ files_to_rename = <<>>
  /\ idx = 0
  /\ renamed_count = 0
  /\ skipped_count = 0
  /\ nFail = 0
  /\ startFs = fs
  /\ log = <<>>
  /\ prev = FALSE
  /\ GenIdle

\* The history and per-run state at the start of a run: the program, or the
\* caller, creates an ImageRenamer.  The id of an entry is history too: it is
\* the name the entry had when the run started.
StartRun(m, t) ==
  /\ pc \in Returned
  /\ mode' = m
  /\ target' = t
  /\ asked' = FALSE
  /\ response' = <<>>
  /\ image_files' = <<>>
  /\ files_to_rename' = <<>>
  /\ idx' = 0
  /\ fs' = [n \in DOMAIN fs |-> [kind |-> fs[n].kind, id |-> n]]
  /\ startFs' = fs'
  /\ log' = <<>>
  /\ prev' = PrevOf
  /\ renamed_count' = 0
  /\ skipped_count' = 0
  /\ UNCHANGED << nFail, genVars >>

\* MainStart without the existence check.
MainStartNoCheck(t) ==
  /\ StartRun("main", t)
  /\ pc' = "confirm"

\* main(), up to the existence check: the path is read and resolved; a path
\* that does not exist is reported and main returns.
MainStart(t) ==
  /\ StartRun("main", t)
  /\ pc' = IF t = "missing" THEN "error" ELSE "confirm"

\* main(), the confirmation: the answer is read; anything but y/yes cancels,
\* otherwise a new ImageRenamer is created and its method called.
MainConfirm(r) ==
  /\ pc = "confirm"
  /\ asked' = TRUE
  /\ response' = r
  /\ pc' = IF Proceeds(r) THEN "call" ELSE "cancelled"
  /\ UNCHANGED << fs, mode, target, image_files, files_to_rename, idx,
                  renamed_count, skipped_count, nFail, startFs, log, prev, genVars >>

\* A caller other than main() calls rename_files_automatically on a new
\* ImageRenamer.
DirectCall(t) ==
  /\ StartRun("direct", t)
  /\ pc' = "call"

\* rename_files_automatically, up to the renaming loop: the directory is
\* checked, scanned and the plan is built.
Enter ==
  /\ pc = "call"
  /\ LET found == IF target = "dir" THEN get_image_files(fs) ELSE <<>>
     IN  /\ pc' = CASE target = "missing" -> "error"
                    [] target = "file" -> "crashed"
                    [] found = <<>> -> "nofiles"
                    [] OTHER -> "loop"
         /\ image_files' = found
         /\ files_to_rename' = Plan(found)
         /\ idx' = IF found = <<>> THEN 0 ELSE 1
  /\ UNCHANGED << fs, mode, target, asked, response, renamed_count,
                  skipped_count, nFail, startFs, log, prev,
                  genVars >>

\* One pass of the renaming loop over the next pair of the plan.
ProcessFile(fail) ==
  /\ pc = "loop"
  /\ idx <= Len(files_to_rename)
  /\ LET file_path == files_to_rename[idx].src
         planned   == files_to_rename[idx].dst
         new_path  == Resolve(fs, Len(image_files), file_path, planned)
         raises    == RenameRaises(fs, file_path, new_path, fail)
         outcome   == Outcome(file_path, new_path, raises)
     IN  /\ fail => (new_path # file_path /\ nFail < MaxFail)
         /\ fs' = IF outcome = "renamed" THEN Renamed(fs, file_path, new_path) ELSE fs
         /\ renamed_count' = CountRenamed(renamed_count, outcome)
         /\ skipped_count' = CountSkipped(skipped_count, outcome)
         /\ nFail' = IF fail THEN nFail + 1 ELSE nFail
         /\ log' = Append(log, [src |-> file_path, planned |-> planned,
                                dst |-> new_path,
                                collided |-> Collides(fs, file_path, planned),
                                outcome |-> outcome,
                                injected |-> fail,
                                before |-> fs, after |-> fs'])
  /\ idx' = idx + 1
  /\ UNCHANGED << pc, mode, target, asked, response, image_files,
                  files_to_rename, startFs, prev, genVars >>

\* The loop is over: the summary is printed and the method returns.
Summary ==
  /\ pc = "loop"
  /\ idx > Len(files_to_rename)
  /\ pc' = "done"
  /\ UNCHANGED << fs, mode, target, asked, response, image_files,
                  files_to_rename, idx, renamed_count, skipped_count, nFail,
                  startFs, log, prev, genVars >>

Next ==
  \/ \E t \in Targets : MainStart(t)
  \/ \E r \in Responses : MainConfirm(r)
  \/ \E t \in Targets : DirectCall(t)
  \/ Enter
  \/ \E fail \in BOOLEAN : ProcessFile(fail)
  \/ Summary

Spec == Init /\ [][Next]_vars

\* ------------------------------------------------------ generate_new_name
\* The positions of s where old starts.
Occurrences(s, old) ==
  {i \in 1..(Len(s) - Len(old) + 1) : SubSeq(s, i, i + Len(old) - 1) = old}

\* str.replace(old, new) for a non-empty old: the occurrences of old are
\* replaced from left to right, without overlap.
RECURSIVE Replace(_, _, _)
Replace(s, old, new) ==
  IF Len(s) < Len(old) \/ Occurrences(s, old) = {} THEN s
  ELSE LET i == CHOOSE k \in Occurrences(s, old) : \A j \in Occurrences(s, old) : k <= j
       IN  SubSeq(s, 1, i - 1) \o new \o Replace(SubSeq(s, i + Len(old), Len(s)), old, new)

\* The character class of the first re.sub: < > : " / \ | ? *
InvalidChars == {"<", ">", ":", "\"", "/", "\\", "|", "?", "*"}

\* re.sub(r'[<>:"/\\|?*]', '_', s)
ReplaceInvalid(s) == [i \in 1..Len(s) |-> IF s[i] \in InvalidChars THEN "_" ELSE s[i]]

\* re.sub(r'_+', '_', s)
\* The characters of s at the positions of the set keep, in their order.
Pick(s, keep) ==
  [j \in 1..Cardinality(keep) |->
     s[CHOOSE i \in keep : Cardinality({k \in keep : k <= i}) = j]]

\* re.sub(r'_+', '_', s): of every run of "_" the first one stays.
CollapseUnderscores(s) ==
  Pick(s, {i \in 1..Len(s) : ~(s[i] = "_" /\ i > 1 /\ s[i - 1] = "_")})

\* str.strip('_'): from the first to the last character that is not "_".
StripUnderscores(s) ==
  LET body == {i \in 1..Len(s) : s[i] # "_"}
  IN  IF body = {} THEN <<>>
      ELSE SubSeq(s, CHOOSE i \in body : \A j \in body : i <= j,
                     CHOOSE i \in body : \A j \in body : j <= i)

\* The clean-up with the runs of "_" collapsed before the invalid characters
\* are replaced.
CleanUpCollapseFirst(s) == StripUnderscores(ReplaceInvalid(CollapseUnderscores(s)))

\* The three clean-up statements of generate_new_name, in their order.
CleanUp(s) == StripUnderscores(CollapseUnderscores(ReplaceInvalid(s)))

\* datetime.strftime('%Y%m%d')
StrfDate(t) == ZFill(Digits(t.Y), 4) \o ZFill(Digits(t.M), 2) \o ZFill(Digits(t.D), 2)

\* datetime.strftime('%H%M%S')
StrfTime(t) == ZFill(Digits(t.h), 2) \o ZFill(Digits(t.m), 2) \o ZFill(Digits(t.s), 2)

\* datetime.strftime('%Y%m%d_%H%M%S')
StrfDateTime(t) == StrfDate(t) \o <<"_">> \o StrfTime(t)

\* metadata.get(key, ''): metadata is a function from some of the keys.
MetaGet(metadata, key) == IF key \in DOMAIN metadata THEN metadata[key] ELSE <<>>

\* metadata.get(key) is there and truthy, for a key that holds a number.
NumberTruthy(metadata, key) == key \in DOMAIN metadata /\ metadata[key] # 0

\* metadata.get(key) is there and truthy, for a key that holds a string.
StringTruthy(metadata, key) == key \in DOMAIN metadata /\ metadata[key] # <<>>

\* str(metadata.get(key, '')) for a key that holds a number.
MetaNumber(metadata, key) ==
  IF key \in DOMAIN metadata THEN Digits(metadata[key]) ELSE <<>>

\* The replacements dictionary of generate_new_name, in insertion order.
Replacements(file, counter, metadata) ==
  << <<<<"{", "o", "r", "i", "g", "i", "n", "a", "l", "}">>, Stem(file.name)>>,
     <<<<"{", "c", "o", "u", "n", "t", "e", "r", "}">>, IF counter # 0 THEN ZFill(Digits(counter), 3) ELSE <<>> >>,
     <<<<"{", "d", "a", "t", "e", "}">>, StrfDate(file.ctime)>>,
     <<<<"{", "t", "i", "m", "e", "}">>, StrfTime(file.ctime)>>,
     <<<<"{", "d", "a", "t", "e", "t", "i", "m", "e", "}">>, StrfDateTime(file.ctime)>>,
     <<<<"{", "m", "o", "d", "_", "d", "a", "t", "e", "}">>, StrfDate(file.mtime)>>,
     <<<<"{", "m", "o", "d", "_", "d", "a", "t", "e", "t", "i", "m", "e", "}">>, StrfDateTime(file.mtime)>>,
     <<<<"{", "s", "i", "z", "e", "}">>, Digits(file.size)>>,
     <<<<"{", "w", "i", "d", "t", "h", "}">>, MetaNumber(metadata, "width")>>,
     <<<<"{", "h", "e", "i", "g", "h", "t", "}">>, MetaNumber(metadata, "height")>>,
     <<<<"{", "r", "e", "s", "o", "l", "u", "t", "i", "o", "n", "}">>,
       IF NumberTruthy(metadata, "width")
       THEN MetaNumber(metadata, "width") \o <<"x">> \o MetaNumber(metadata, "height")
       ELSE <<>> >>,
     <<<<"{", "f", "o", "r", "m", "a", "t", "}">>, MetaGet(metadata, "format")>>,
     <<<<"{", "c", "a", "m", "e", "r", "a", "}">>,
       IF StringTruthy(metadata, "camera_make")
       THEN MetaGet(metadata, "camera_make") \o <<"_">> \o MetaGet(metadata, "camera_model")
       ELSE <<>> >> >>

\* The substitution loop: the first k replacements applied in order.
RECURSIVE SubstituteUpTo(_, _, _)
SubstituteUpTo(s, reps, k) ==
  IF k = 0 THEN s
  ELSE LET new_name == SubstituteUpTo(s, reps, k - 1)
       IN  IF new_name = <<>> THEN <<>>
           ELSE Replace(new_name, reps[k][1], reps[k][2])

Substitute(pattern, file, counter, metadata) ==
  LET reps == Replacements(file, counter, metadata)
  IN  SubstituteUpTo(pattern, reps, Len(reps))

\* ImageRenamer.generate_new_name
generate_new_name(file, pattern, counter, metadata) ==
  CleanUp(Substitute(pattern, file, counter, metadata)) \o Suffix(file.name)

\* Longest pattern, in pieces.
MaxPieces == 3

\* The pieces patterns are made of.
Pieces ==
  { <<"{", "o", "r", "i", "g", "i", "n", "a", "l", "}">>, <<"{", "c", "o", "u", "n", "t", "e", "r", "}">>, <<"{", "c", "a", "m", "e", "r", "a", "}">>, <<"{", "r", "e", "s", "o", "l", "u", "t", "i", "o", "n", "}">>,
    <<"_">>, <<":">>, <<"/">>, <<"N">>, <<".">> }

RECURSIVE Concat(_)
Concat(ps) == IF ps = <<>> THEN <<>> ELSE Head(ps) \o Concat(Tail(ps))

MyFileName == <<"M", "y", ":", "F", "i", "l", "e", "/", "/", "/", "N", "a", "m", "e">>

PhotoPattern == <<"{", "o", "r", "i", "g", "i", "n", "a", "l", "}", "_", "{", "c", "o", "u", "n", "t", "e", "r", "}", "{", "f", "o", "r", "m", "a", "t", "}">>

StampPattern ==
  <<"{", "d", "a", "t", "e", "}", "_", "{", "t", "i", "m", "e",
     "}", "|", "{", "d", "a", "t", "e", "t", "i", "m", "e", "}",
     "*", "{", "m", "o", "d", "_", "d", "a", "t", "e", "}", "?",
     "{", "m", "o", "d", "_", "d", "a", "t", "e", "t", "i", "m",
     "e", "}", "<", "{", "s", "i", "z", "e", "}", ">", "{", "w",
     "i", "d", "t", "h", "}", "x", "{", "h", "e", "i", "g", "h",
     "t", "}", "\\" >>

\* The patterns generate_new_name is applied to.
Patterns ==
  { Concat(ps) : ps \in UNION { [1..k -> Pieces] : k \in 0..MaxPieces } }
    \cup { MyFileName, PhotoPattern, StampPattern }

\* The files generate_new_name is applied to.
GenFiles ==
  { [name |-> <<"p", "h", "o", "t", "o", ".", "p", "n", "g">>, size |-> 2048,
     ctime |-> [Y |-> 2024, M |-> 3, D |-> 9, h |-> 7, m |-> 5, s |-> 0],
     mtime |-> [Y |-> 2025, M |-> 12, D |-> 31, h |-> 23, m |-> 59, s |-> 58]],
    [name |-> <<"_", "a", ":", "_", ".", "J", "P", "G">>, size |-> 0,
     ctime |-> [Y |-> 1999, M |-> 1, D |-> 1, h |-> 0, m |-> 0, s |-> 0],
     mtime |-> [Y |-> 1999, M |-> 1, D |-> 1, h |-> 0, m |-> 0, s |-> 0]],
    [name |-> <<"x", "_">>, size |-> 7,
     ctime |-> [Y |-> 2024, M |-> 3, D |-> 9, h |-> 7, m |-> 5, s |-> 0],
     mtime |-> [Y |-> 2024, M |-> 3, D |-> 9, h |-> 7, m |-> 5, s |-> 1]] }

NoMetadata == [k \in {} |-> <<>>]

\* The metadata get_image_metadata returns for a PNG of a camera.
FullMetadata ==
  [k \in {"width", "height", "format", "mode", "camera_make", "camera_model"} |->
     CASE k = "width" -> 640
       [] k = "height" -> 480
       [] k = "format" -> <<"P", "N", "G">>
       [] k = "mode" -> <<"R", "G", "B">>
       [] k = "camera_make" -> <<"A", "c", "/", "m", "e">>
       [] k = "camera_model" -> <<"X", "_">>]

\* The arguments generate_new_name is applied to.
GenInputs ==
  [pattern : Patterns, file : GenFiles, counter : {0, 2}, metadata : {NoMetadata, FullMetadata}]

\* The state of the renamer while only generate_new_name is exercised.
RenamerIdle ==
  /\ fs = [n \in {} |-> [kind |-> "file", id |-> n]]
  /\ pc = "idle"
  /\ mode = "none"
  /\ target = "dir"
  /\ asked = FALSE
  /\ response = <<>>
  /\ image_files = <<>>
  /\ files_to_rename = <<>>
  /\ idx = 0
  /\ renamed_count = 0
  /\ skipped_count = 0
  /\ nFail = 0
  /\ startFs = fs
  /\ log = <<>>
  /\ prev = FALSE

InitGen ==
  /\ RenamerIdle
  /\ gen_pc = "in"
  /\ gen_in \in GenInputs
  /\ gen_out = <<>>

\* A call of generate_new_name.
Generate ==
  /\ gen_pc = "in"
  /\ gen_out' = generate_new_name(gen_in.file, gen_in.pattern, gen_in.counter,
                                  gen_in.metadata)
  /\ gen_pc' = "out"
  /\ UNCHANGED << renamerVars, gen_in >>

NextGen == Generate

SpecGen == InitGen /\ [][NextGen]_vars

\* ----------------------------------------------------------------- claims
\* Facts about the current run, read off the history variables.

\* The method has been entered in this run.
InBatch == pc \in {"call", "loop", "done", "nofiles", "crashed"}

\* Positions of the log with a given outcome.
LogWith(o) == {i \in 1..Len(log) : log[i].outcome = o}

\* Positions of the log whose pass changed the directory.
Applied == {i \in 1..Len(log) : log[i].after # log[i].before}

\* Positions of the log where the environment made the rename fail.
Injected == {i \in 1..Len(log) : log[i].injected}

\* Positions of the log whose planned destination was taken by another entry.
Collided ==
  {i \in 1..Len(log) : log[i].planned \in DOMAIN log[i].before
                         /\ log[i].planned # log[i].src}

\* The identities of the entries of a directory.
Ids(d) == {d[n].id : n \in DOMAIN d}

\* The regular files of a directory whose extension is a supported one.
ImagesOf(d) ==
  {n \in DOMAIN d : d[n].kind = "file" /\ Lower(Suffix(n)) \in SupportedFormats}

\* C1: every rename applied in a run targets a name that is not on disk at
\* that moment; the destinations of the renames applied in one run are pairwise
\* distinct; no entry, scanned or not, is overwritten or lost, and the
\* directory holds as many entries after the run as before it.
C1_NoOverwrite ==
  /\ \A i \in Applied : log[i].dst \notin DOMAIN log[i].before
  /\ \A i, j \in Applied : i # j => log[i].dst # log[j].dst
  /\ Ids(fs) = Ids(startFs)
  /\ Cardinality(DOMAIN fs) = Cardinality(DOMAIN startFs)
  /\ \A n \in DOMAIN startFs \ {image_files[i] : i \in 1..Len(image_files)} :
       n \in DOMAIN fs /\ fs[n] = startFs[n]

\* A finished run that renamed two files, one of them after a collision, in a
\* directory that also holds an entry the scan leaves out.
C1_Witness ==
  /\ pc = "done"
  /\ Cardinality(Applied) >= 2
  /\ Applied \cap Collided # {}
  /\ DOMAIN startFs \ ImagesOf(startFs) # {}

\* The precondition of C2: the directory holds only files with supported
\* extensions, N >= 1 of them, none named 001.jpg .. NNN.jpg.
C2_Pre ==
  /\ DOMAIN startFs # {}
  /\ ImagesOf(startFs) = DOMAIN startFs
  /\ \A i \in 1..Cardinality(DOMAIN startFs) : SeqName(i) \notin DOMAIN startFs

C3_Pre ==
  LET images == ImagesOf(startFs)
  IN  /\ images # {}
      /\ images = {SeqName(i) : i \in 1..Cardinality(images)}

\* C3: a run of sequential mode on a directory whose image files are exactly
\* 001.jpg .. NNN.jpg performs no rename and leaves the directory unchanged;
\* it ends with 0 renamed and N skipped.
C3_Idempotent ==
  (pc \in {"loop", "done"} /\ C3_Pre) =>
    /\ fs = startFs
    /\ Applied = {}
    /\ \A i \in 1..Len(log) : log[i].outcome = "unchanged"
    /\ renamed_count = 0
    /\ pc = "done" => skipped_count = Cardinality(ImagesOf(startFs))

\* The second of two runs in a row: the first renamed every one of its (two or
\* more) files, the second finds them correctly named.
C3_Witness ==
  /\ pc = "done" /\ prev /\ C3_Pre
  /\ Len(image_files) >= 2
  /\ renamed_count = 0
  /\ skipped_count = Len(image_files)

\* C4: when the planned destination of a file is on disk and is not the file
\* itself, the destination becomes image_{k:03d}.jpg for the smallest
\* k >= (number of scanned files) + 1 whose name is not on disk; the file is
\* then renamed to it and counted as renamed, unless the rename raises.
C4_Fallback ==
  \A i \in Collided :
    LET b == log[i].before
        n == Len(image_files)
    IN  /\ \E k \in (n + 1)..(n + 1 + Cardinality(DOMAIN b)) :
             /\ log[i].dst = <<"i", "m", "a", "g", "e", "_">> \o Fmt03(k) \o DotJpg
             /\ \A j \in (n + 1)..(k - 1) : ImageName(j) \in DOMAIN b
        /\ log[i].dst \notin DOMAIN b
        /\ ~log[i].injected =>
             /\ log[i].outcome = "renamed"
             /\ log[i].src \notin DOMAIN log[i].after
             /\ log[i].dst \in DOMAIN log[i].after
             /\ log[i].after[log[i].dst] = b[log[i].src]
             /\ renamed_count >= 1

\* A collision whose first fallback name was taken too, resolved by a rename.
C4_Witness ==
  \E i \in Collided :
    /\ ImageName(Len(image_files) + 1) \in DOMAIN log[i].before
    /\ log[i].outcome = "renamed"
    /\ log[i].dst \in DOMAIN fs

\* The number of passes of the log, up to and including i, with an outcome of os.
CountUpTo(i, os) == Cardinality({j \in 1..i : log[j].outcome \in os})

\* C5: a rename that raises leaves the file under its name and the directory
\* as it was, adds one to skipped_count and nothing to renamed_count, and the
\* files after it are still processed; 5 files none of which has its planned
\* name already, with a failure on the 3rd only, end as 4 renamed, 1 skipped.
C5_FailureIsolation ==
  /\ \A i \in Injected :
       /\ log[i].outcome = "error"
       /\ log[i].after = log[i].before
       /\ log[i].src \in DOMAIN log[i].after
  /\ skipped_count = CountUpTo(Len(log), {"error", "unchanged"})
  /\ renamed_count = CountUpTo(Len(log), {"renamed"})
  /\ (pc = "done") => Len(log) = Len(image_files)
  /\ (/\ pc = "done"
      /\ Len(image_files) = 5
      /\ \A i \in 1..5 : image_files[i] # SeqName(i)
      /\ Injected = {3})
     => (renamed_count = 4 /\ skipped_count = 1)

\* A finished run over 5 files whose 3rd rename failed and whose 4th and 5th
\* files were renamed.
C5_Witness ==
  /\ pc = "done"
  /\ Len(image_files) = 5
  /\ \A i \in 1..5 : image_files[i] # SeqName(i)
  /\ Injected = {3}
  /\ log[4].outcome = "renamed" /\ log[5].outcome = "renamed"
  /\ renamed_count = 4 /\ skipped_count = 1

\* C6: when the given path does not exist the run reports the error and
\* returns: the directory is not changed, no confirmation is asked for, no file
\* is processed and the counters stay 0.
C6_MissingDirectory ==
  (mode # "none" /\ target = "missing") =>
    /\ pc \in {"call", "error"}
    /\ pc = "call" => mode = "direct"
    /\ fs = startFs
    /\ ~asked
    /\ log = <<>>
    /\ renamed_count = 0 /\ skipped_count = 0

\* main() has reported a path that does not exist, with files around.
C6_Witness ==
  /\ pc = "error" /\ mode = "main" /\ target = "missing"
  /\ DOMAIN fs # {}

\* The answers that read y or yes.
YesWords == { <<"y">>, <<"y", "e", "s">> }

\* C7 as stated: in the interactive flow the batch starts, and the directory
\* changes, only after an answer that equals y or yes up to case; every other
\* answer cancels and changes nothing.
C7_AsStated ==
  (mode = "main") =>
    /\ (InBatch \/ fs # startFs) => (asked /\ Lower(response) \in YesWords)
    /\ (asked /\ Lower(response) \notin YesWords) =>
         (pc = "cancelled" /\ fs = startFs /\ log = <<>>)

\* C7, amended: in the interactive flow the batch starts, and the directory
\* changes, only after an answer that, with leading and trailing whitespace
\* removed, equals y or yes up to case; every other answer cancels and
\* changes nothing.
C7_ConfirmationGate ==
  (mode = "main") =>
    /\ (InBatch \/ fs # startFs) => (asked /\ Lower(Strip(response)) \in YesWords)
    /\ (asked /\ Lower(Strip(response)) \notin YesWords) =>
         (pc = "cancelled" /\ fs = startFs /\ log = <<>>)
    /\ pc = "confirm" => (~asked /\ fs = startFs /\ log = <<>>)

\* A batch of main() that renamed files after an answer padded with blanks.
C7_Witness ==
  /\ mode = "main" /\ pc = "done" /\ asked
  /\ response # Strip(response)
  /\ Applied # {}

\* C9: the files are processed in sorted order, each once, each ending as
\* unchanged, error or renamed; an applied rename is never undone; the counters
\* count the files of each outcome, renamed_count the renames applied to the
\* directory; at the summary renamed_count + skipped_count is the number of
\* scanned files.
C9_PerFile ==
  /\ pc \in {"loop", "done"} => Len(log) = idx - 1
  /\ Len(log) <= Len(image_files)
  /\ \A i \in 1..Len(log) :
       /\ log[i].src = image_files[i]
       /\ log[i].outcome \in {"unchanged", "error", "renamed"}
       /\ (log[i].outcome = "renamed") = (i \in Applied)
       /\ i \in Applied =>
            /\ log[i].dst \in DOMAIN fs
            /\ fs[log[i].dst] = log[i].before[log[i].src]
  /\ \A i, j \in 1..Len(image_files) : i < j => LexLess(image_files[i], image_files[j])
  /\ renamed_count = Cardinality(Applied)
  /\ renamed_count + skipped_count = Len(log)
  /\ pc = "done" =>
       /\ Len(log) = Len(image_files)
       /\ renamed_count + skipped_count = Len(image_files)

\* A finished run with a file of each outcome.
C9_Witness ==
  /\ pc = "done"
  /\ LogWith("unchanged") # {} /\ LogWith("error") # {} /\ LogWith("renamed") # {}

\* Pairs of files of the run that collided and were given the same fallback name.
SharedFallback ==
  {p \in Collided \X Collided : p[1] < p[2] /\ log[p[1]].dst = log[p[2]].dst}

\* C10: two files of one run can be given the same fallback name (C10_Witness
\* is such a state), since the loop looks only at the disk; when that happens
\* the rename of the first of them had raised, so that its name was not on
\* disk, and the two are never both renamed to it.
C10_FallbackGap ==
  \A p \in SharedFallback :
    /\ log[p[1]].outcome = "error"
    /\ log[p[1]].dst \notin DOMAIN log[p[2]].before
    /\ ~(log[p[1]].outcome = "renamed" /\ log[p[2]].outcome = "renamed")

\* Two colliding files of one run given the same fallback name, the second
\* renamed to it.
C10_Witness ==
  \E p \in SharedFallback : log[p[2]].outcome = "renamed"

\* The characters of s that are not in the set cs, in their order.
Without(s, cs) ==
  LET Kept(c) == c \notin cs
  IN  SelectSeq(s, Kept)

\* The returned name without the extension appended to it.
GenStem == SubSeq(gen_out, 1, Len(gen_out) - Len(Suffix(gen_in.file.name)))

\* C8: the name generate_new_name returns is a stem followed by the source
\* file's extension, unchanged; the stem has none of < > : " / \ | ? *, no two
\* adjacent "_" and no leading or trailing "_"; a pattern without placeholders
\* keeps its other characters in their order, with "_" only where the pattern
\* had "_" or a replaced character; My:File///Name gives My_File_Name.
C8_Sanitized ==
  (gen_pc = "out") =>
    LET ext == Suffix(gen_in.file.name)
        stem == GenStem
        seps == InvalidChars \cup {"_"}
    IN  /\ Len(gen_out) >= Len(ext)
        /\ SubSeq(gen_out, Len(gen_out) - Len(ext) + 1, Len(gen_out)) = ext
        /\ \A i \in 1..Len(stem) : stem[i] \notin {"<", ">", ":", "\"", "/", "\\", "|", "?", "*"}
        /\ \A i \in 1..(Len(stem) - 1) : ~(stem[i] = "_" /\ stem[i + 1] = "_")
        /\ stem # <<>> => (stem[1] # "_" /\ stem[Len(stem)] # "_")
        /\ (\A i \in 1..Len(gen_in.pattern) : gen_in.pattern[i] # "{") =>
             /\ Without(stem, {"_"}) = Without(gen_in.pattern, seps)
             /\ \A i \in 1..Len(gen_in.pattern) :
                  (i > 1 /\ i < Len(gen_in.pattern)
                     /\ gen_in.pattern[i] \in seps
                     /\ gen_in.pattern[i - 1] \notin seps
                     /\ gen_in.pattern[i + 1] \notin seps)
                  => \E j \in 2..(Len(stem) - 1) :
                       /\ stem[j] = "_"
                       /\ stem[j - 1] = gen_in.pattern[i - 1]
                       /\ stem[j + 1] = gen_in.pattern[i + 1]
        /\ gen_in.pattern = MyFileName => stem = <<"M", "y", "_", "F", "i", "l", "e", "_", "N", "a", "m", "e">>

\* generate_new_name has returned My_File_Name.png for My:File///Name.
C8_Witness ==
  /\ gen_pc = "out"
  /\ gen_in.pattern = MyFileName
  /\ gen_out = <<"M", "y", "_", "F", "i", "l", "e", "_", "N", "a", "m", "e", ".", "p", "n", "g">>

====
